---- MODULE Spec2Model ----
(***************************************************************************)
(* PyBud cell tracker (src/pybud/pybud.py): seed selections grouped by     *)
(* start frame, the (frame, x, y) -> Cell cache, the result list, and the  *)
(* fit_cells run on a worker thread with cooperative cancellation.         *)
(*                                                                         *)
(* The image stack is an input.  What the tracker sees of it is, per key   *)
(* (frame, x, y), the outcome of constructing Cell(img, ..., frame, x, y): *)
(* not found, found with a fitted ellipse centre, or an exception raised   *)
(* by the ellipse fit.  The outcome of a key is fixed by the image: it is  *)
(* chosen the first time the key is evaluated and kept from then on.       *)
(* Coordinates (seed pixels and fitted centres) range over a small grid.   *)
(***************************************************************************)
EXTENDS Integers, Sequences, FiniteSets, TLC

\* ---- bounds -------------------------------------------------------------
NumFrames == 3          \* img.shape[0]
MaxCoord == 1           \* coordinates are 0..MaxCoord
MaxStart == 1           \* seeds of tracked cells start at frames 0..MaxStart
MaxSeeds == 2           \* seeds stored at any time, over all frames
MaxSel == 3             \* selections stored at any time when only selections are edited
MaxRuns == 2            \* fit_cells calls in one behaviour
SelectionRadius == 1    \* PyBud(selection_radius=...)
NumRays == 4            \* rays of one detection pass (range(360)), a quarter turn apart
MinFoundRays == 2       \* valid rays a found cell needs (150 of the 360)
JumpWindow == 2         \* valid rays collected by one window of the jump filter (20)
cell_radius == 3        \* Cell(cell_radius=...), in pixels
edge_size == 2          \* Cell(edge_size=...), in pixels
img_width == 7          \* img.shape[3]
img_height == 7         \* img.shape[2]
MaxPixel == 2           \* pixel values are 0..MaxPixel
MaxPoints == 5          \* points handed to Ellipse(x, y, method) directly
MaxFitCoord == 1        \* their coordinates are 0..MaxFitCoord

Frames == 0 .. (NumFrames - 1)
StartFrames == {f \in Frames : f <= MaxStart}
Coord == 0 .. MaxCoord
Points == Coord \X Coord
\* seeds and fitted centres of the tracked cells: the grid's diagonal
TrackPoints == {<<c, c>> : c \in Coord}
Keys == {<<f, p[1], p[2]>> : f \in Frames, p \in TrackPoints}

\* ---- outcomes of Cell(...) on the image ------------------------------------
Unknown == [kind |-> "unknown", cx |-> 0, cy |-> 0]
NotFound == [kind |-> "notfound", cx |-> 0, cy |-> 0]
Raises == [kind |-> "raise", cx |-> 0, cy |-> 0]
FoundAt(cx, cy) == [kind |-> "found", cx |-> cx, cy |-> cy]
Outcomes == {NotFound, Raises} \cup {FoundAt(p[1], p[2]) : p \in TrackPoints}

NoEllipse == <<>>
NoCell == [frame |-> -1, x_selected |-> -1, y_selected |-> -1, id |-> -1,
           fitting_method |-> "", cell_found |-> FALSE, ellipse |-> NoEllipse]

get_x_center(cell) == cell.ellipse[1]
get_y_center(cell) == cell.ellipse[2]

\* Python's True, False and None as returned values
PyBool(b) == IF b THEN "True" ELSE "False"
Returned(op, val) == [op |-> op, val |-> val]

Max(a, b) == IF b > a THEN b ELSE a
Min(a, b) == IF b < a THEN b ELSE a

\* ---- Ellipse (src/pybud/ellipse.py) ----------------------------------------------
\* Angles in radians are counted in units of pi/36: np.pi / 2 is 18 units and
\* np.degrees multiplies by 5.
PiHalf == 18
degrees(r) == 5 * r

Methods == {"geometric", "algebraic", "bogus"}

NoParams == <<>>
\* np.array([x_center, y_center, axis, axis, angle]), indexed from 0
Params(x0, y0, a, b, angle) ==
    [i \in 0 .. 4 |-> CASE i = 0 -> x0 [] i = 1 -> y0 [] i = 2 -> a [] i = 3 -> b
                          [] OTHER -> angle]

get_major(p) == Max(p[2], p[3])
get_minor(p) == Min(p[2], p[3])
get_angle(p) == IF p[3] > p[2] THEN degrees(p[4]) + 90 ELSE degrees(p[4])

Xs(pts) == [i \in DOMAIN pts |-> pts[i][1]]
Ys(pts) == [i \in DOMAIN pts |-> pts[i][2]]
SeqMax(v) == CHOOSE m \in {v[i] : i \in DOMAIN v} : \A i \in DOMAIN v : v[i] <= m
SeqMin(v) == CHOOSE m \in {v[i] : i \in DOMAIN v} : \A i \in DOMAIN v : m <= v[i]

Fitted(p) == [error |-> "", params |-> p, con |-> <<>>]
Raised(e) == [error |-> e, params |-> NoParams, con |-> <<>>]

\* The numerical solvers are not computed here: a fit returns one of the parameter
\* vectors that the code around the solver allows.  The fitted centre ranges over
\* the positions of the given points.
Centres(pts) == {pts[i] : i \in DOMAIN pts}

\* fit_geometric_ellipse.  The initial guess of an axis is half the points' extent;
\* with no points, or an extent of 0 (a division by zero in ellipse_equation),
\* least_squares has no finite residual at the initial point and raises ValueError.
\* Otherwise result.x is returned as it is: least_squares is called without
\* bounds, and ellipse_equation is even in a and in b, so that the axes come with
\* either sign, and the angle is any number of radians.
GeoAxes == {-1, 1, 2}
GeoAngles == {-4, 0, 4, 40}
GeometricRaises(pts) ==
    \/ Len(pts) = 0
    \/ SeqMax(Xs(pts)) = SeqMin(Xs(pts))
    \/ SeqMax(Ys(pts)) = SeqMin(Ys(pts))
fit_geometric_ellipse(pts) ==
    IF GeometricRaises(pts)
    THEN {Raised("ValueError")}
    ELSE {Fitted(Params(c[1], c[2], a, b, t)) :
             c \in Centres(pts), a \in GeoAxes, b \in GeoAxes, t \in GeoAngles}

\* fit_algebraic_ellipse.  np.linalg.inv(S3) raises LinAlgError when S3 is singular,
\* that is when the points are collinear (fewer than three included); the conic
\* found otherwise is rejected with ValueError when den > 0.
Collinear(pts) ==
    \A i \in DOMAIN pts, j \in DOMAIN pts, k \in DOMAIN pts :
        (pts[j][1] - pts[i][1]) * (pts[k][2] - pts[i][2])
            = (pts[k][1] - pts[i][1]) * (pts[j][2] - pts[i][2])
\* a_axis and b_axis are values of np.sqrt
AlgAxes == {1, 2}
\* lines 109-114: rel is how A compares with C, h is np.arctan((2 * B) / (A - C)) / 2,
\* which lies strictly between -pi/4 and pi/4, is not 0, and is -pi/4 or pi/4
\* when A = C
ConicRel == {"A<C", "A=C", "A>C"}
HalfArctan(rel) == IF rel = "A=C" THEN {-9, 9} ELSE {-4, 4}
AlgebraicAngle(bzero, rel, h) ==
    IF bzero
    THEN IF rel = "A<C" THEN 0 ELSE PiHalf
    ELSE IF rel = "A>C" THEN h + PiHalf ELSE h
AlgebraicAngles ==
    {AlgebraicAngle(TRUE, rel, 0) : rel \in ConicRel}
        \cup UNION {{AlgebraicAngle(FALSE, rel, h) : h \in HalfArctan(rel)} : rel \in ConicRel}
\* lines 81-83: con has one entry per eigenvector of the reduced problem; only its
\* signs matter below.  The eigenvectors come from np.linalg.eig and are not
\* computed here: every combination of signs is taken.
Constraints == [0 .. 2 -> {-1, 0, 1}]
\* line 82: np.argmax(con > 0) is the first index at which con > 0, and 0 when
\* there is none
pos_eig_idx(c) ==
    IF \E i \in 0 .. 2 : c[i] > 0
    THEN CHOOSE i \in 0 .. 2 : c[i] > 0 /\ \A j \in 0 .. (i - 1) : c[j] <= 0
    ELSE 0
\* lines 97-104 with den = 0: the divisions by den give nan or an infinity (numpy
\* scalars warn and do not raise); the value below stands for "not finite"
NotFinite == 0 - 1000
\* lines 95-117: den = B**2 - A*C is -con/4 of the selected eigenvector.  den > 0
\* raises ValueError; den = 0 is not tested and the parameters are computed by
\* dividing by it; den < 0 gives the parameters of an ellipse.
fit_algebraic_ellipse(pts) ==
    IF Collinear(pts)
    THEN {Raised("LinAlgError")}
    ELSE UNION {
           LET sel == c[pos_eig_idx(c)]
           IN  IF sel < 0
               THEN {[Raised("ValueError") EXCEPT !.con = c]}
               ELSE IF sel = 0
               THEN {[Fitted(Params(NotFinite, NotFinite, NotFinite, NotFinite, t))
                         EXCEPT !.con = c] : t \in AlgebraicAngles}
               ELSE {[Fitted(Params(ctr[1], ctr[2], a, b, t)) EXCEPT !.con = c] :
                        ctr \in Centres(pts), a \in AlgAxes, b \in AlgAxes,
                        t \in AlgebraicAngles}
           : c \in Constraints}

\* mutant: an unknown method string falls back to the geometric fit
EllipseDefaultsToGeometric(pts, method) ==
    IF method = "algebraic" THEN fit_algebraic_ellipse(pts)
    ELSE fit_geometric_ellipse(pts)

\* Ellipse.__init__: the outcomes of Ellipse(x, y, method)
Ellipse(pts, method) ==
    IF method = "geometric" THEN fit_geometric_ellipse(pts)
    ELSE IF method = "algebraic" THEN fit_algebraic_ellipse(pts)
    ELSE {Raised("ValueError")}

\* ---- Cell.get_cell_edge (src/pybud/cell.py) -----------------------------------------
edge_rel_min == 30      \* Cell(edge_rel_min=30), per cent
BorderMargin == 2       \* lines 222-223

Rays == 0 .. (NumRays - 1)
Pixels == 0 .. MaxPixel
\* what the image holds at the cell_radius + 1 positions sampled along one ray
Profiles == [0 .. cell_radius -> Pixels]
\* stats.mode(roi) and np.median(roi) of the images considered
Modes == {0, 1, 4}
Medians == {-1, 0, 4}

\* np.cos(alpha) and np.sin(alpha) of ray k: the rays are a quarter turn apart, so
\* that int(round(i * cosalpha)) is i * cosalpha
CosAlpha(k) == CASE k % 4 = 0 -> 1 [] k % 4 = 2 -> -1 [] OTHER -> 0
SinAlpha(k) == CASE k % 4 = 1 -> 1 [] k % 4 = 3 -> -1 [] OTHER -> 0

\* lines 123-124
vector_x(xs, k) == [i \in 0 .. cell_radius |-> xs + i * CosAlpha(k)]
vector_y(ys, k) == [i \in 0 .. cell_radius |-> ys + i * SinAlpha(k)]
\* mutant: the last column and the last row plus one pass the bounds test
InImageInclusive(px, py) == 0 <= px /\ px <= img_width /\ 0 <= py /\ py <= img_height

\* line 126
InImage(px, py) == 0 <= px /\ px < img_width /\ 0 <= py /\ py < img_height
\* lines 126-129
vector_pixel_value(profile, xs, ys, k, bg) ==
    [i \in 0 .. cell_radius |->
        IF InImage(vector_x(xs, k)[i], vector_y(ys, k)[i]) THEN profile[i] ELSE bg]

\* A seed taken from a fit is a float; here seeds are counted in half pixels.
\* Lines 123-124 store x_selected + int(round(i * cosalpha)) into an int32 buffer:
\* the value is truncated towards zero.
ToInt32(v2) == IF v2 >= 0 THEN v2 \div 2 ELSE -((-v2) \div 2)
sampled_x(x2, k) == [i \in 0 .. cell_radius |-> ToInt32(x2 + 2 * i * CosAlpha(k))]
sampled_y(y2, k) == [i \in 0 .. cell_radius |-> ToInt32(y2 + 2 * i * SinAlpha(k))]
\* lines 126-127: the positions at which self.img is indexed
ImageReads(x2, y2, k) ==
    {<<sampled_x(x2, k)[i], sampled_y(y2, k)[i]>> :
        i \in {j \in 0 .. cell_radius : InImage(sampled_x(x2, k)[j], sampled_y(y2, k)[j])}}
\* lines 126-129
sampled_pixel_value(profile, x2, y2, k, bg) ==
    [i \in 0 .. cell_radius |->
        IF InImage(sampled_x(x2, k)[i], sampled_y(y2, k)[i]) THEN profile[i] ELSE bg]
NoRay == [sampled |-> FALSE, x2 |-> 0, y2 |-> 0, angle |-> 0, background |-> 0,
          vector_x |-> <<>>, vector_y |-> <<>>, reads |-> {}, vector_pixel_value |-> <<>>,
          profile |-> <<>>, pixel_found |-> FALSE, limit_ptr |-> 0]

\* np.argmax and np.argmin of v[lo..hi]: the first position of the extreme value
ArgMax(v, lo, hi) ==
    CHOOSE p \in lo .. hi :
        /\ \A q \in lo .. hi : v[q] <= v[p]
        /\ \A q \in lo .. (p - 1) : v[q] < v[p]
ArgMin(v, lo, hi) ==
    CHOOSE p \in lo .. hi :
        /\ \A q \in lo .. hi : v[p] <= v[q]
        /\ \A q \in lo .. (p - 1) : v[p] < v[q]

\* line 144 and its use in line 146: (100 * current_dif) / background > edge_rel_min.
\* A division by 0 gives inf (current_dif is positive), no exception.
RelDifExceeds(current_dif, bg) ==
    IF bg > 0 THEN 100 * current_dif > edge_rel_min * bg
    ELSE IF bg < 0 THEN 100 * current_dif < edge_rel_min * bg
    ELSE current_dif > 0

NoEdge == [pixel_found |-> FALSE, limit_ptr |-> 0, max_dif |-> 0, edge |-> 0]

\* mutant: the minimum is looked for in the whole window and the drop may come in
\* either order, its width being signed
RECURSIVE ScanFromEitherOrder(_, _, _, _)
ScanFromEitherOrder(v, bg, i, acc) ==
    IF i > cell_radius - edge_size THEN acc
    ELSE LET position_max == ArgMax(v, i, i + edge_size - 1) - i
             position_min == ArgMin(v, i, i + edge_size - 1) - i
             current_dif == v[i + position_max] - v[i + position_min]
             take == /\ position_max # position_min
                     /\ current_dif > acc.max_dif
                     /\ RelDifExceeds(current_dif, bg)
         IN  ScanFromEitherOrder(v, bg, i + 1,
                      IF take
                      THEN [pixel_found |-> TRUE,
                            limit_ptr |-> i + ((position_max + position_min) \div 2),
                            max_dif |-> current_dif,
                            edge |-> position_min - position_max]
                      ELSE acc)

\* lines 135-151: the windows from position i on, acc being what was kept so far
RECURSIVE ScanFrom(_, _, _, _)
ScanFrom(v, bg, i, acc) ==
    IF i > cell_radius - edge_size THEN acc
    ELSE LET position_max == ArgMax(v, i, i + edge_size - 1) - i
             position_min == ArgMin(v, i + position_max, i + edge_size - 1) - i
             current_dif == v[i + position_max] - v[i + position_min]
             take == /\ position_max < position_min
                     /\ current_dif > acc.max_dif
                     /\ RelDifExceeds(current_dif, bg)
         IN  ScanFrom(v, bg, i + 1,
                      IF take
                      THEN [pixel_found |-> TRUE,
                            limit_ptr |-> i + ((position_max + position_min) \div 2),
                            max_dif |-> current_dif,
                            edge |-> position_min - position_max]
                      ELSE acc)
Scan(v, bg) == ScanFrom(v, bg, 0, NoEdge)

\* np.sqrt of a perfect square
Sqrt(n) == CHOOSE r \in 0 .. n : r * r = n
\* found_slope = max_dif / edge is kept in units of 1 / SlopeUnit, a multiple of
\* every possible edge (1 .. edge_size - 1)
RECURSIVE Factorial(_)
Factorial(n) == IF n <= 1 THEN 1 ELSE n * Factorial(n - 1)
SlopeUnit == Factorial(edge_size - 1)

\* np.mean and np.std of vals[valid], kept as count, sum and sum of squares
RECURSIVE StatFrom(_, _, _)
StatFrom(vals, valid, k) ==
    IF k >= NumRays THEN [n |-> 0, sum |-> 0, sq |-> 0]
    ELSE LET rest == StatFrom(vals, valid, k + 1)
         IN  IF valid[k]
             THEN [n |-> rest.n + 1, sum |-> rest.sum + vals[k],
                   sq |-> rest.sq + vals[k] * vals[k]]
             ELSE rest
Stat(vals, valid) == StatFrom(vals, valid, 0)
NoStat == [n |-> 0, sum |-> 0, sq |-> 0]
\* n^2 times the variance
Var2(st) == st.n * st.sq - st.sum * st.sum

\* line 174: mean - 2 * sdev <= r <= mean + 2 * sdev; with no valid ray the mean is
\* nan and the comparison is False
WithinTwoSdev(r, st) ==
    /\ st.n > 0
    /\ (st.n * r - st.sum) * (st.n * r - st.sum) <= 4 * Var2(st)
\* lines 208 and 214: v >= mean - sdev
AtLeastMeanMinusSdev(v, st) ==
    /\ st.n > 0
    /\ \/ st.sum - st.n * v <= 0
       \/ (st.sum - st.n * v) * (st.sum - st.n * v) <= Var2(st)
\* line 197: r > mean_win_rad + sdev_rad, the window holding ctr rays of sum wsum
AboveWindow(r, wsum, ctr, st) ==
    /\ ctr * r - wsum > 0
    /\ (ctr * r - wsum) * (ctr * r - wsum) * st.n * st.n > ctr * ctr * Var2(st)

\* lines 185-189
RECURSIVE Accumulate(_, _, _, _)
Accumulate(valid, rad, va, acc) ==
    IF acc.ctr < JumpWindow /\ va + acc.inc < NumRays - 1
    THEN Accumulate(valid, rad, va,
                    IF valid[va + acc.inc]
                    THEN [inc |-> acc.inc + 1, ctr |-> acc.ctr + 1,
                          sum |-> acc.sum + rad[va + acc.inc]]
                    ELSE [acc EXCEPT !.inc = @ + 1])
    ELSE acc
\* Python's round(n / 2): halves go to the even neighbour
RoundHalf(n) ==
    IF n % 2 = 0 THEN n \div 2
    ELSE IF (n \div 2) % 2 = 0 THEN n \div 2 ELSE (n \div 2) + 1
\* lines 178-203, from position va on
RECURSIVE JumpFrom(_, _, _, _)
JumpFrom(valid, rad, st, va) ==
    IF va >= NumRays - 1 THEN valid
    ELSE LET acc == Accumulate(valid, rad, va, [inc |-> 0, ctr |-> 0, sum |-> 0])
         IN  IF acc.ctr > 0
             THEN JumpFrom([k \in Rays |->
                              IF /\ k \in va .. (va + acc.inc)
                                 /\ valid[k]
                                 /\ AboveWindow(rad[k], acc.sum, acc.ctr, st)
                              THEN FALSE
                              ELSE valid[k]],
                           rad, st, va + RoundHalf(acc.inc) + 1)
             ELSE JumpFrom(valid, rad, st, va + 1)

\* lines 222-223 for one point
InsideBorder(px, py) ==
    /\ px >= BorderMargin /\ px <= img_width - BorderMargin
    /\ py >= BorderMargin /\ py <= img_height - BorderMargin

\* found_x[pixel_found], found_y[pixel_found]: the points of the valid rays, in
\* ray order
RECURSIVE ValidPointsFrom(_, _, _, _)
ValidPointsFrom(valid, fx, fy, k) ==
    IF k >= NumRays THEN <<>>
    ELSE (IF valid[k] THEN <<<<fx[k], fy[k]>>>> ELSE <<>>)
            \o ValidPointsFrom(valid, fx, fy, k + 1)
ValidPoints(valid, fx, fy) == ValidPointsFrom(valid, fx, fy, 0)

VARIABLES
    selections,       \* self.selections: insertion-ordered dict, as a sequence of [frame, pts]
    cells,            \* self.cells
    processed_cells,  \* self.processed_cells
    should_run,       \* self._should_run
    img,              \* the image stack, as the outcome of Cell(...) per key
    pc,               \* position of the worker thread in fit_cells
    si, ci,           \* positions of the two selection iterators
    frame, x, y,      \* loop variables of fit_cells
    cell,             \* local `cell`
    cell_id,          \* local `cell_id`
    di_used,          \* size of self.selections when its iterator was made (line 58)
    coordinates,      \* local `coordinates`: the list that line 59 iterates
    callback,         \* whether a callback was passed
    calls,            \* frames passed to callback in the current run, in order
    built,            \* Cell constructions completed in the current run
    runs,             \* fit_cells calls so far
    ret,              \* the most recent API call and the value it returned
    stopPending,      \* stop() was called during the run, after its last cancellation check
    \* an Ellipse under construction (src/pybud/ellipse.py)
    points,           \* self.x, self.y
    fitting_method,   \* the method string
    params,           \* self.params
    error,            \* the exception raised, "" when none
    con,              \* the signs of con = 4 * eigvecs[0] * eigvecs[2] - eigvecs[1]**2
    \* a Cell under construction (src/pybud/cell.py)
    stage,            \* position in Cell.__init__ / get_cell_data / get_cell_edge
    x_selected, y_selected,
    background,
    seed_pixel,       \* the image at (x_selected, y_selected), where every ray starts
    vector_angle,     \* the ray being scanned
    pixel_found, found_x, found_y, found_rad, found_dif, found_edge, found_slope,
    sdev_rad,         \* np.std of the valid radii, kept from the first filter
    cell_found,
    mean_edge,
    ray               \* one ray sampled from a seed that need not be a pixel

fitter == <<points, fitting_method, params, error, con>>
detector == <<stage, x_selected, y_selected, background, seed_pixel, vector_angle,
              pixel_found, found_x, found_y, found_rad, found_dif, found_edge,
              found_slope, sdev_rad, cell_found, mean_edge, ray>>

vars == <<selections, cells, processed_cells, should_run, img, pc, si, ci,
          frame, x, y, cell, cell_id, di_used, coordinates, callback, calls, built,
          runs, ret, stopPending, fitter, detector>>

\* Cell.__init__ + get_cell_data for an outcome that does not raise; the record
\* keeps the fitting method it was built with
Cell(o, f, px, py, id) ==
    [frame |-> f, x_selected |-> px, y_selected |-> py, id |-> id,
     fitting_method |-> fitting_method,
     cell_found |-> (o.kind = "found"),
     ellipse |-> IF o.kind = "found" THEN <<o.cx, o.cy>> ELSE NoEllipse]

tracker == <<selections, cells, processed_cells, should_run>>
locals == <<si, ci, frame, x, y, cell, cell_id, di_used, coordinates>>
observed == <<callback, calls, built, runs, stopPending>>

\* ---- selections ------------------------------------------------------------
\* np.hypot(sx - x, sy - y) <= self.selection_radius, on integers
Near(sx, sy, px, py) ==
    (sx - px) * (sx - px) + (sy - py) * (sy - py) <= SelectionRadius * SelectionRadius

\* position of `frame` in the dict, 0 when it is not a key
RECURSIVE EntryFrom(_, _, _)
EntryFrom(sel, f, i) ==
    IF i > Len(sel) THEN 0
    ELSE IF sel[i].frame = f THEN i
    ELSE EntryFrom(sel, f, i + 1)
Entry(sel, f) == EntryFrom(sel, f, 1)

\* index of the first (sx, sy) of pts within the radius of (px, py), 0 when none
RECURSIVE FirstNearFrom(_, _, _, _)
FirstNearFrom(pts, px, py, i) ==
    IF i > Len(pts) THEN 0
    ELSE IF Near(pts[i][1], pts[i][2], px, py) THEN i
    ELSE FirstNearFrom(pts, px, py, i + 1)
\* mutant: the last entry within the radius instead of the first
RECURSIVE LastNearFrom(_, _, _, _)
LastNearFrom(pts, px, py, i) ==
    IF i < 1 THEN 0
    ELSE IF Near(pts[i][1], pts[i][2], px, py) THEN i
    ELSE LastNearFrom(pts, px, py, i - 1)
LastNear(pts, px, py) == LastNearFrom(pts, px, py, Len(pts))

FirstNear(pts, px, py) == FirstNearFrom(pts, px, py, 1)

DelAt(s, i) == [j \in 1 .. (Len(s) - 1) |-> IF j < i THEN s[j] ELSE s[j + 1]]

RECURSIVE CountFrom(_, _)
CountFrom(sel, i) ==
    IF i > Len(sel) THEN 0 ELSE Len(sel[i].pts) + CountFrom(sel, i + 1)
NumSelections(sel) == CountFrom(sel, 1)

\* mutant: only a selection on the clicked pixel itself counts
contains_selection_exact(sel, f, px, py) ==
    /\ Entry(sel, f) # 0
    /\ \E i \in 1 .. Len(sel[Entry(sel, f)].pts) : sel[Entry(sel, f)].pts[i] = <<px, py>>

contains_selection(sel, f, px, py) ==
    /\ Entry(sel, f) # 0
    /\ FirstNear(sel[Entry(sel, f)].pts, px, py) # 0

\* no Ellipse is under construction; fitting_method is PyBud's default
FitterIdle ==
    /\ points = <<>>
    /\ fitting_method = "algebraic"
    /\ params = NoParams
    /\ error = ""
    /\ con = <<>>

\* no Cell is under construction
DetectorIdle ==
    /\ stage = "idle"
    /\ x_selected = 0 /\ y_selected = 0
    /\ background = 0
    /\ seed_pixel = 0
    /\ vector_angle = 0
    /\ pixel_found = <<>> /\ found_x = <<>> /\ found_y = <<>> /\ found_rad = <<>>
    /\ found_dif = <<>> /\ found_edge = <<>> /\ found_slope = <<>>
    /\ sdev_rad = NoStat
    /\ cell_found = FALSE
    /\ mean_edge = <<0, 1>>
    /\ ray = NoRay

\* `coordinates` is the list that self.selections holds for the frame at position si
\* (live), or a list that self.selections no longer holds, with its items
Live == [live |-> TRUE, frame |-> 0, pts |-> <<>>]
Detached(f, pts) == [live |-> FALSE, frame |-> f, pts |-> pts]

InitTracker ==
    /\ selections = <<>>
    /\ cells = <<>>
    /\ processed_cells = <<>>
    /\ should_run = FALSE
    /\ img = [k \in Keys |-> Unknown]
    /\ pc = "idle"
    /\ si = 0 /\ ci = 0 /\ frame = 0 /\ x = 0 /\ y = 0
    /\ cell = NoCell
    /\ cell_id = 0
    /\ di_used = 0
    /\ coordinates = Live
    /\ callback = FALSE
    /\ calls = <<>>
    /\ built = 0
    /\ runs = 0
    /\ ret = Returned("init", "None")
    /\ stopPending = FALSE

Init == InitTracker /\ FitterIdle /\ DetectorIdle

ContainsSelection(f, px, py) ==
    /\ ret' = Returned("contains_selection", PyBool(contains_selection(selections, f, px, py)))
    /\ UNCHANGED <<tracker, img, pc, locals, observed>>

add_selection(sel, f, px, py) ==
    LET withKey == IF Entry(sel, f) = 0
                   THEN Append(sel, [frame |-> f, pts |-> <<>>])
                   ELSE sel
        e == Entry(withKey, f)
    IN  [withKey EXCEPT ![e].pts = Append(@, <<px, py>>)]

AddSelection(f, px, py) ==
    /\ selections' = add_selection(selections, f, px, py)
    /\ ret' = Returned("add_selection", "None")
    /\ UNCHANGED <<cells, processed_cells, should_run, img, pc, locals, observed>>

\* the selections after the call, and the value returned
remove_selection(sel, f, px, py) ==
    LET e == Entry(sel, f)
        i == IF e = 0 THEN 0 ELSE FirstNear(sel[e].pts, px, py)
    IN  IF i = 0
        THEN [selections |-> sel, val |-> "False"]
        ELSE [selections |-> [sel EXCEPT ![e].pts = DelAt(@, i)], val |-> "True"]

RemoveSelection(f, px, py) ==
    /\ selections' = remove_selection(selections, f, px, py).selections
    /\ ret' = Returned("remove_selection", remove_selection(selections, f, px, py).val)
    /\ UNCHANGED <<cells, processed_cells, should_run, img, pc, locals, observed>>

\* mutant: the cache survives clear()
ClearKeepsCache ==
    /\ selections' = <<>>
    /\ cells' = <<>>
    /\ ret' = Returned("clear", "None")
    /\ UNCHANGED <<processed_cells, should_run, img, pc, locals, observed>>

Clear ==
    /\ selections' = <<>>
    /\ cells' = <<>>
    /\ processed_cells' = <<>>
    /\ ret' = Returned("clear", "None")
    /\ UNCHANGED <<should_run, img, pc, locals, observed>>

\* ---- fit_cells, one step of the worker thread at a time ---------------------
\* position of the first seed at or after (i, j) in iteration order, <<0, 0>> when none
RECURSIVE SeedFrom(_, _, _)
SeedFrom(sel, i, j) ==
    IF i > Len(sel) THEN <<0, 0>>
    ELSE IF j <= Len(sel[i].pts) THEN <<i, j>>
    ELSE SeedFrom(sel, i + 1, 1)

\* fit_cells returns: its locals are gone
Return ==
    /\ pc' = "returned"
    /\ si' = 0 /\ ci' = 0 /\ frame' = 0 /\ x' = 0 /\ y' = 0
    /\ cell' = NoCell
    /\ cell_id' = 0
    /\ di_used' = 0
    /\ coordinates' = Live

\* an exception leaves fit_cells, that has no handler: its locals are gone
Propagate ==
    /\ pc' = "failed"
    /\ si' = 0 /\ ci' = 0 /\ frame' = 0 /\ x' = 0 /\ y' = 0
    /\ cell' = NoCell
    /\ cell_id' = 0
    /\ di_used' = 0
    /\ coordinates' = Live

\* lines 58-60: the for-statements over the selections move on to the seed at pos
EnterSeed(pos) ==
    /\ pc' = "check"
    /\ si' = pos[1] /\ ci' = pos[2]
    /\ frame' = selections[pos[1]].frame
    /\ x' = selections[pos[1]].pts[pos[2]][1]
    /\ y' = selections[pos[1]].pts[pos[2]][2]
    /\ cell' = NoCell
    /\ coordinates' = Live

\* line 59 takes the next item of the list `coordinates`, a list iterator going by
\* position in the list as it is now
Items == IF coordinates.live THEN selections[si].pts ELSE coordinates.pts
NextItem ==
    /\ pc' = "check"
    /\ ci' = ci + 1
    /\ frame' = IF coordinates.live THEN selections[si].frame ELSE coordinates.frame
    /\ x' = Items[ci + 1][1]
    /\ y' = Items[ci + 1][2]
    /\ cell' = NoCell
    /\ UNCHANGED <<si, di_used, coordinates>>

\* line 58 takes the next item of self.selections.items(): a dict iterator raises
\* RuntimeError when the size of the dict is not what it was when the iterator
\* was made, and goes by position otherwise
NextItems(id) ==
    IF di_used # Len(selections)
    THEN Propagate
    ELSE IF SeedFrom(selections, si + 1, 1) = <<0, 0>>
         THEN Return
         ELSE /\ cell_id' = id
              /\ EnterSeed(SeedFrom(selections, si + 1, 1))
              /\ UNCHANGED di_used

\* mutant: cell_id is not incremented when a lineage ends
NextLineageSameId ==
    IF ci + 1 <= Len(Items)
    THEN cell_id' = cell_id /\ NextItem
    ELSE NextItems(cell_id)

\* line 95 and the loop heads: the frame loop of the current seed is left
NextLineage ==
    IF ci + 1 <= Len(Items)
    THEN cell_id' = cell_id + 1 /\ NextItem
    ELSE NextItems(cell_id + 1)

\* positions of a worker thread that has been started and has not left fit_cells
Running == {"launched", "check", "body"}

\* ImageViewer.measure: the worker thread is started
Measure(cb) ==
    /\ pc = "idle"
    /\ pc' = "launched"
    /\ runs' = runs + 1
    /\ callback' = cb
    /\ ret' = Returned("fit_cells", "None")
    /\ UNCHANGED <<calls, built, stopPending>>
    /\ UNCHANGED <<tracker, img, locals>>

\* mutant: line 55 active, the result list is reset when a run begins
BeginResetsCells ==
    /\ pc = "launched"
    /\ should_run' = TRUE
    /\ cells' = <<>>
    /\ IF SeedFrom(selections, 1, 1) = <<0, 0>>
       THEN Return
       ELSE /\ cell_id' = 1
            /\ di_used' = Len(selections)
            /\ EnterSeed(SeedFrom(selections, 1, 1))
    /\ UNCHANGED <<selections, processed_cells, img, observed, ret>>

\* mutant: a run numbers its lineages after the records already in the list
BeginContinuesIds ==
    /\ pc = "launched"
    /\ should_run' = TRUE
    /\ IF SeedFrom(selections, 1, 1) = <<0, 0>>
       THEN Return
       ELSE /\ cell_id' = Len(cells) + 1
            /\ di_used' = Len(selections)
            /\ EnterSeed(SeedFrom(selections, 1, 1))
    /\ UNCHANGED <<selections, cells, processed_cells, img, observed, ret>>

\* fit_cells, lines 53-59
Begin ==
    /\ pc = "launched"
    /\ should_run' = TRUE
    /\ IF SeedFrom(selections, 1, 1) = <<0, 0>>
       THEN Return
       ELSE /\ cell_id' = 1
            /\ di_used' = Len(selections)
            /\ EnterSeed(SeedFrom(selections, 1, 1))
    /\ UNCHANGED <<selections, cells, processed_cells, img, observed, ret>>

\* mutant: the frame loop does not test the flag
CheckIgnoresFlag ==
    /\ pc = "check"
    /\ pc' = "body"
    /\ stopPending' = FALSE
    /\ UNCHANGED <<tracker, img, locals, callback, calls, built, runs, ret>>

\* lines 62-63
Check ==
    /\ pc = "check"
    /\ IF ~should_run
       THEN Return
       ELSE pc' = "body" /\ UNCHANGED locals
    /\ stopPending' = FALSE
    /\ UNCHANGED <<tracker, img, callback, calls, built, runs, ret>>

\* mutant: the key is looked up with its components in another order
CacheHitSwapped(cache, key) == <<key[2], key[3], key[1]>> \in DOMAIN cache

\* mutant: a cached record counts only when it was built with the current method
CacheHitSameMethod(cache, key) ==
    key \in DOMAIN cache /\ cache[key].fitting_method = fitting_method

\* line 65: (frame, x, y) in self.processed_cells
CacheHit(cache, key) == key \in DOMAIN cache

\* mutant: the record is stored under a key without its frame
SetItemDropsFrame(cache, key, c) ==
    [k \in DOMAIN cache \cup {<<0, key[2], key[3]>>} |->
        IF k = <<0, key[2], key[3]>> THEN c ELSE cache[k]]

\* line 76: self.processed_cells[key] = c
SetItem(cache, key, c) ==
    [k \in DOMAIN cache \cup {key} |-> IF k = key THEN c ELSE cache[k]]

\* mutant: a not-found record does not end the lineage, the next frame is tried
\* from the same (x, y)
ContinueNoBreak(c) ==
    IF ~c.cell_found
    THEN /\ UNCHANGED calls
         /\ IF frame + 1 < NumFrames
            THEN /\ frame' = frame + 1
                 /\ cell' = c
                 /\ pc' = "check"
                 /\ UNCHANGED <<si, ci, x, y, cell_id, di_used, coordinates>>
            ELSE NextLineage
    ELSE /\ calls' = IF callback THEN Append(calls, <<cell_id, frame>>) ELSE calls
         /\ IF frame + 1 < NumFrames
            THEN /\ x' = get_x_center(c)
                 /\ y' = get_y_center(c)
                 /\ frame' = frame + 1
                 /\ cell' = c
                 /\ pc' = "check"
                 /\ UNCHANGED <<si, ci, cell_id, di_used, coordinates>>
            ELSE NextLineage

\* mutant: the callback is invoked before the found test
ContinueCallbackFirst(c) ==
    /\ calls' = IF callback THEN Append(calls, <<cell_id, frame>>) ELSE calls
    /\ IF ~c.cell_found
       THEN NextLineage
       ELSE IF frame + 1 < NumFrames
            THEN /\ x' = get_x_center(c)
                 /\ y' = get_y_center(c)
                 /\ frame' = frame + 1
                 /\ cell' = c
                 /\ pc' = "check"
                 /\ UNCHANGED <<si, ci, cell_id, di_used, coordinates>>
            ELSE NextLineage

\* lines 70-71 and 78-95, with c the cell of this iteration
Continue(c) ==
    IF ~c.cell_found
    THEN NextLineage /\ UNCHANGED calls
    ELSE /\ calls' = IF callback THEN Append(calls, <<cell_id, frame>>) ELSE calls
         /\ IF frame + 1 < NumFrames
            THEN /\ x' = get_x_center(c)
                 /\ y' = get_y_center(c)
                 /\ frame' = frame + 1
                 /\ cell' = c
                 /\ pc' = "check"
                 /\ UNCHANGED <<si, ci, cell_id, di_used, coordinates>>
            ELSE NextLineage

\* lines 65-95: one iteration of the frame loop after its cancellation check.
\* Nothing in it reads _should_run, so stop() cannot tell it from one step.
Iterate ==
    /\ pc = "body"
    /\ LET key == <<frame, x, y>>
       IN  IF CacheHit(processed_cells, key)
           THEN /\ Continue(processed_cells[key])
                /\ UNCHANGED <<cells, processed_cells, img, built>>
           ELSE \E o \in Outcomes :
                  /\ img[key] \in {Unknown, o}
                  /\ img' = [img EXCEPT ![key] = o]
                  /\ IF o.kind = "raise"
                     THEN /\ Propagate
                          /\ UNCHANGED <<cells, processed_cells, built, calls>>
                     ELSE /\ cells' = Append(cells, Cell(o, frame, x, y, cell_id))
                          /\ processed_cells' =
                                SetItem(processed_cells, key, Cell(o, frame, x, y, cell_id))
                          /\ built' = built + 1
                          /\ Continue(Cell(o, frame, x, y, cell_id))
    /\ UNCHANGED <<selections, should_run, callback, runs, stopPending, ret>>

\* FitCellsWorker.run after fit_cells has returned (finished is emitted), or the
\* caller after fit_cells has raised: the run is over
Finished ==
    /\ pc \in {"returned", "failed"}
    /\ pc' = "idle"
    /\ callback' = FALSE
    /\ calls' = <<>>
    /\ built' = 0
    /\ stopPending' = FALSE
    /\ UNCHANGED <<tracker, img, locals, runs, ret>>

\* line 98, from any thread
Stop ==
    /\ should_run' = FALSE
    /\ stopPending' = (pc \in Running)
    /\ UNCHANGED ret
    /\ UNCHANGED <<selections, cells, processed_cells, img, pc, locals,
                   callback, calls, built, runs>>

\* The tracker driven through its API: selections are edited and cleared only while
\* no run is active, stop() may be called at any time.  Behaviours are cut after
\* MaxRuns runs: no edit is explored once no run can follow it.  A run without a
\* callback is explored as the first run of a behaviour.
Editable == pc = "idle" /\ runs < MaxRuns

Next ==
    \/ \E f \in StartFrames, p \in TrackPoints :
          /\ Editable /\ NumSelections(selections) < MaxSeeds /\ AddSelection(f, p[1], p[2])
          /\ UNCHANGED <<fitter, detector>>
    \/ \E f \in StartFrames, p \in TrackPoints :
          Editable /\ RemoveSelection(f, p[1], p[2]) /\ UNCHANGED <<fitter, detector>>
    \/ Editable /\ Clear /\ UNCHANGED <<fitter, detector>>
    \/ \E cb \in BOOLEAN :
          runs < MaxRuns /\ (cb \/ runs = 0) /\ Measure(cb) /\ UNCHANGED <<fitter, detector>>
    \/ Begin /\ UNCHANGED <<fitter, detector>>
    \/ Check /\ UNCHANGED <<fitter, detector>>
    \/ Iterate /\ UNCHANGED <<fitter, detector>>
    \/ Finished /\ UNCHANGED <<fitter, detector>>
    \/ pc \in Running /\ Stop /\ UNCHANGED <<fitter, detector>>

Spec == Init /\ [][Next]_vars

\* Selections only: add, remove, contains and clear on a wider grid.
NextSel ==
    \/ \E f \in Frames, p \in Points :
          /\ NumSelections(selections) < MaxSel /\ AddSelection(f, p[1], p[2])
          /\ UNCHANGED <<fitter, detector>>
    \/ \E f \in Frames, p \in Points :
          RemoveSelection(f, p[1], p[2]) /\ UNCHANGED <<fitter, detector>>
    \/ \E f \in Frames, p \in Points :
          ContainsSelection(f, p[1], p[2]) /\ UNCHANGED <<fitter, detector>>
    \/ Clear /\ UNCHANGED <<fitter, detector>>

SpecSel == Init /\ [][NextSel]_vars

\* ---- fit_cells run to its end in one piece -------------------------------------
\* lines 52-95 with _should_run true throughout, from the seed at pos, frame f and
\* position (px, py) of lineage id; acc holds self.cells and self.processed_cells.
\* ok is FALSE when Cell(...) raises or the image has not been looked at there.
RECURSIVE fit_cells(_, _, _, _, _, _, _, _)
fit_cells(sel, image, pos, f, px, py, id, acc) ==
    LET nxt == IF pos = <<0, 0>> THEN pos ELSE SeedFrom(sel, pos[1], pos[2] + 1)
        lineage(a) ==
            IF nxt = <<0, 0>> THEN a
            ELSE fit_cells(sel, image, nxt, sel[nxt[1]].frame, sel[nxt[1]].pts[nxt[2]][1],
                           sel[nxt[1]].pts[nxt[2]][2], id + 1, a)
        key == <<f, px, py>>
    IN  IF pos = <<0, 0>> THEN acc
        ELSE IF f >= NumFrames THEN lineage(acc)
        ELSE IF CacheHit(acc.processed_cells, key)
        THEN IF ~acc.processed_cells[key].cell_found
             THEN lineage(acc)
             ELSE fit_cells(sel, image, pos, f + 1,
                            get_x_center(acc.processed_cells[key]),
                            get_y_center(acc.processed_cells[key]), id, acc)
        ELSE IF image[key].kind \in {"unknown", "raise"}
        THEN [acc EXCEPT !.ok = FALSE]
        ELSE LET c == Cell(image[key], f, px, py, id)
                 a == [ok |-> acc.ok,
                       cells |-> Append(acc.cells, c),
                       processed_cells |-> SetItem(acc.processed_cells, key, c)]
             IN  IF ~c.cell_found
                 THEN lineage(a)
                 ELSE fit_cells(sel, image, pos, f + 1, get_x_center(c), get_y_center(c), id, a)

\* one uncancelled fit_cells() on a tracker with these selections and no records
Uncancelled(sel, image) ==
    LET first == SeedFrom(sel, 1, 1)
        empty == [ok |-> TRUE, cells |-> <<>>, processed_cells |-> <<>>]
    IN  IF first = <<0, 0>> THEN empty
        ELSE fit_cells(sel, image, first, sel[first[1]].frame, sel[first[1]].pts[first[2]][1],
                       sel[first[1]].pts[first[2]][2], 1, empty)

\* Seeds are chosen, then fit_cells is run, stopped and run again; selections,
\* image and configuration stay as they are from the first run on.
NextResume ==
    \/ \E f \in StartFrames, p \in TrackPoints :
          /\ pc = "idle" /\ runs = 0 /\ NumSelections(selections) < MaxSeeds
          /\ AddSelection(f, p[1], p[2])
          /\ UNCHANGED <<fitter, detector>>
    \/ \E cb \in BOOLEAN :
          runs < MaxRuns + 1 /\ Measure(cb) /\ UNCHANGED <<fitter, detector>>
    \/ Begin /\ UNCHANGED <<fitter, detector>>
    \/ Check /\ UNCHANGED <<fitter, detector>>
    \/ Iterate /\ UNCHANGED <<fitter, detector>>
    \/ Finished /\ UNCHANGED <<fitter, detector>>
    \/ pc \in Running /\ Stop /\ UNCHANGED <<fitter, detector>>

SpecResume == Init /\ [][NextResume]_vars

\* ---- configuration changed between runs ------------------------------------------
\* pybud.fitting_method = m, and likewise Settings.adjust_settings (pybud_gui.py
\* lines 428-433) for the other attributes: an attribute of the tracker is
\* assigned and nothing else.  What Cell(...) gives under the new configuration is
\* open again.
AdjustSettings(m) ==
    /\ pc = "idle"
    /\ m # fitting_method
    /\ fitting_method' = m
    /\ img' = [k \in Keys |-> Unknown]
    /\ UNCHANGED <<points, params, error, con, detector>>
    /\ UNCHANGED <<tracker, pc, locals, observed, ret>>

NextConfig ==
    \/ \E f \in StartFrames, p \in TrackPoints :
          /\ pc = "idle" /\ runs = 0 /\ NumSelections(selections) < MaxSeeds
          /\ AddSelection(f, p[1], p[2])
          /\ UNCHANGED <<fitter, detector>>
    \/ \E m \in Methods : runs >= 1 /\ AdjustSettings(m)
    \/ runs < MaxRuns /\ Measure(TRUE) /\ UNCHANGED <<fitter, detector>>
    \/ Begin /\ UNCHANGED <<fitter, detector>>
    \/ Check /\ UNCHANGED <<fitter, detector>>
    \/ Iterate /\ UNCHANGED <<fitter, detector>>
    \/ Finished /\ UNCHANGED <<fitter, detector>>

SpecConfig == Init /\ [][NextConfig]_vars

\* ---- the tracker behind the GUI (src/pybud_gui.py) ---------------------------------
\* mousePressEvent, lines 156-160: a left click on the image toggles a selection
MousePress(f, px, py) ==
    /\ selections' = IF contains_selection(selections, f, px, py)
                      THEN remove_selection(selections, f, px, py).selections
                      ELSE add_selection(selections, f, px, py)
    /\ ret' = IF contains_selection(selections, f, px, py)
               THEN Returned("remove_selection", "True")
               ELSE Returned("add_selection", "None")
    /\ UNCHANGED <<cells, processed_cells, should_run, img, pc, locals, observed>>

\* Settings.clear_selections, lines 438-441: pybud.stop() and pybud.clear().  A
\* worker inside the loops keeps the list it is iterating, that the dict no
\* longer holds.
ClearSelections ==
    /\ should_run' = FALSE
    /\ stopPending' = (pc \in Running)
    /\ selections' = <<>>
    /\ cells' = <<>>
    /\ processed_cells' = <<>>
    /\ coordinates' = IF pc \in {"check", "body"} /\ coordinates.live
                       THEN Detached(selections[si].frame, selections[si].pts)
                       ELSE coordinates
    /\ ret' = Returned("clear", "None")
    /\ UNCHANGED <<img, pc, si, ci, frame, x, y, cell, cell_id, di_used,
                   callback, calls, built, runs>>

\* FitCellsWorker.run, lines 24-26, and ImageViewer.on_fit_cells_finished, lines
\* 235-238: finished is emitted after fit_cells has returned, and its slot enables
\* the Measure button again.  run has no handler: an exception of fit_cells ends
\* the thread before line 26.
OnFitCellsFinished ==
    /\ pc = "returned"
    /\ pc' = "idle"
    /\ callback' = FALSE
    /\ calls' = <<>>
    /\ built' = 0
    /\ stopPending' = FALSE
    /\ UNCHANGED <<tracker, img, locals, runs, ret>>

\* One measurement with the window open: nothing but the Measure button is
\* disabled while the worker runs (lines 222-229), clicks and Clear Selections go on.
\* Behaviours are cut when the measurement is over.  The clicks are on one place of
\* the image, in any of the start frames.
Open == runs = 0 \/ pc \in Running
Clicked == {<<0, 0>>}

NextGui ==
    \/ \E f \in StartFrames, p \in Clicked :
          /\ Open
          /\ NumSelections(selections) < MaxSeeds \/ contains_selection(selections, f, p[1], p[2])
          /\ MousePress(f, p[1], p[2])
          /\ UNCHANGED <<fitter, detector>>
    \/ Open /\ ClearSelections /\ UNCHANGED <<fitter, detector>>
    \/ runs = 0 /\ Measure(TRUE) /\ UNCHANGED <<fitter, detector>>
    \/ Begin /\ UNCHANGED <<fitter, detector>>
    \/ Check /\ UNCHANGED <<fitter, detector>>
    \/ Iterate /\ UNCHANGED <<fitter, detector>>
    \/ OnFitCellsFinished /\ UNCHANGED <<fitter, detector>>

SpecGui == Init /\ [][NextGui]_vars

\* lines 156-160 as a function of the selections: what one click leaves
toggle(sel, f, px, py) ==
    IF contains_selection(sel, f, px, py)
    THEN remove_selection(sel, f, px, py).selections
    ELSE add_selection(sel, f, px, py)

\* Selections changed by clicks only, on the whole grid and in every frame.
NextClick ==
    \E f \in Frames, p \in Points :
        /\ NumSelections(selections) < MaxSel \/ contains_selection(selections, f, p[1], p[2])
        /\ MousePress(f, p[1], p[2])
        /\ UNCHANGED <<fitter, detector>>

SpecClick == Init /\ [][NextClick]_vars

\* The worker is a thread of its own and is scheduled as long as it can take a
\* step; the signal it emits is queued to the GUI thread, whose event loop runs
\* the slot.
WorkerStep == (Begin \/ Check \/ Iterate) /\ UNCHANGED <<fitter, detector>>
SlotStep == OnFitCellsFinished /\ UNCHANGED <<fitter, detector>>
SpecGuiLive == SpecGui /\ WF_vars(WorkerStep) /\ WF_vars(SlotStep)

\* ---- Ellipse(x, y, method) called directly -----------------------------------------
FitCoord == 0 .. MaxFitCoord
PointSeqs == UNION {[1 .. n -> FitCoord \X FitCoord] : n \in 0 .. MaxPoints}

InitFit ==
    /\ InitTracker
    /\ DetectorIdle
    /\ points \in PointSeqs
    /\ fitting_method \in Methods
    /\ params = NoParams
    /\ error = ""
    /\ con = <<>>

NewEllipse ==
    /\ params = NoParams
    /\ error = ""
    /\ con = <<>>
    /\ \E o \in Ellipse(points, fitting_method) :
          /\ params' = o.params
          /\ error' = o.error
          /\ con' = o.con
    /\ UNCHANGED <<points, fitting_method, detector>>
    /\ UNCHANGED <<tracker, img, pc, locals, observed, ret>>

NextFit == NewEllipse

SpecFit == InitFit /\ [][NextFit]_vars

\* ---- one detection pass: Cell.get_cell_edge -----------------------------------------
\* the seeds considered: from BorderMargin pixels inside the image's first corner
\* to BorderMargin pixels inside its last
SeedPoints == {<<c, c>> : c \in BorderMargin .. (img_width - BorderMargin)}
Zeros == [k \in Rays |-> 0]

InitEdge ==
    /\ InitTracker
    /\ FitterIdle
    /\ stage = "new"
    /\ \E p \in SeedPoints : x_selected = p[1] /\ y_selected = p[2]
    /\ background = 0
    /\ seed_pixel \in Pixels
    /\ vector_angle = 0
    /\ pixel_found = <<>> /\ found_x = <<>> /\ found_y = <<>> /\ found_rad = <<>>
    /\ found_dif = <<>> /\ found_edge = <<>> /\ found_slope = <<>>
    /\ sdev_rad = NoStat
    /\ cell_found = FALSE
    /\ mean_edge = <<0, 1>>
    /\ ray = NoRay

\* lines 89-112: the background estimate and the zeroed arrays
EstimateBackground ==
    /\ stage = "new"
    /\ \E mode \in Modes, median \in Medians :
          background' = IF mode = 0 THEN median ELSE mode
    /\ pixel_found' = [k \in Rays |-> FALSE]
    /\ found_x' = Zeros /\ found_y' = Zeros /\ found_rad' = Zeros
    /\ found_dif' = Zeros /\ found_edge' = Zeros /\ found_slope' = Zeros
    /\ vector_angle' = 0
    /\ stage' = "scan"
    /\ UNCHANGED <<x_selected, y_selected, seed_pixel, sdev_rad, cell_found, mean_edge>>
    /\ UNCHANGED ray
    /\ UNCHANGED <<tracker, img, pc, locals, observed, ret, fitter>>

\* lines 115-169 for the ray vector_angle
ScanRay ==
    /\ stage = "scan"
    /\ \E profile \in Profiles :
          /\ profile[0] = seed_pixel
          /\ LET k == vector_angle
                 v == vector_pixel_value(profile, x_selected, y_selected, k, background)
                 e == Scan(v, background)
                 px == vector_x(x_selected, k)[e.limit_ptr]
                 py == vector_y(y_selected, k)[e.limit_ptr]
                 dx == px - x_selected
                 dy == py - y_selected
             IN  IF e.pixel_found
                 THEN /\ pixel_found' = [pixel_found EXCEPT ![k] = TRUE]
                      /\ found_x' = [found_x EXCEPT ![k] = px]
                      /\ found_y' = [found_y EXCEPT ![k] = py]
                      /\ found_rad' = [found_rad EXCEPT ![k] = Sqrt(dx * dx + dy * dy)]
                      /\ found_dif' = [found_dif EXCEPT ![k] = e.max_dif]
                      /\ found_edge' = [found_edge EXCEPT ![k] = e.edge]
                      /\ found_slope' =
                            [found_slope EXCEPT ![k] = (e.max_dif * SlopeUnit) \div e.edge]
                 ELSE /\ pixel_found' = pixel_found
                      /\ found_x' = [found_x EXCEPT ![k] = 0]
                      /\ found_y' = [found_y EXCEPT ![k] = 0]
                      /\ found_rad' = [found_rad EXCEPT ![k] = 0]
                      /\ found_dif' = [found_dif EXCEPT ![k] = 0]
                      /\ found_edge' = [found_edge EXCEPT ![k] = 0]
                      /\ found_slope' = [found_slope EXCEPT ![k] = 0]
    /\ vector_angle' = vector_angle + 1
    /\ stage' = IF vector_angle + 1 = NumRays THEN "radius" ELSE "scan"
    /\ UNCHANGED <<x_selected, y_selected, background, seed_pixel, sdev_rad,
                   cell_found, mean_edge>>
    /\ UNCHANGED ray
    /\ UNCHANGED <<tracker, img, pc, locals, observed, ret, fitter>>

\* lines 172-175
FilterRadius ==
    /\ stage = "radius"
    /\ sdev_rad' = Stat(found_rad, pixel_found)
    /\ pixel_found' = [k \in Rays |->
                          pixel_found[k]
                            /\ WithinTwoSdev(found_rad[k], Stat(found_rad, pixel_found))]
    /\ stage' = "jump"
    /\ UNCHANGED <<x_selected, y_selected, background, seed_pixel, vector_angle,
                   found_x, found_y, found_rad, found_dif, found_edge, found_slope,
                   cell_found, mean_edge>>
    /\ UNCHANGED ray
    /\ UNCHANGED <<tracker, img, pc, locals, observed, ret, fitter>>

\* lines 178-203
FilterJump ==
    /\ stage = "jump"
    /\ pixel_found' = JumpFrom(pixel_found, found_rad, sdev_rad, 0)
    /\ stage' = "dif"
    /\ UNCHANGED <<x_selected, y_selected, background, seed_pixel, vector_angle,
                   found_x, found_y, found_rad, found_dif, found_edge, found_slope,
                   sdev_rad, cell_found, mean_edge>>
    /\ UNCHANGED ray
    /\ UNCHANGED <<tracker, img, pc, locals, observed, ret, fitter>>

\* mutant: the magnitude filter assigns its mask instead of combining it
FilterDifAssigns ==
    /\ stage = "dif"
    /\ pixel_found' = [k \in Rays |->
                          AtLeastMeanMinusSdev(found_dif[k], Stat(found_dif, pixel_found))]
    /\ stage' = "slope"
    /\ UNCHANGED <<x_selected, y_selected, background, seed_pixel, vector_angle,
                   found_x, found_y, found_rad, found_dif, found_edge, found_slope,
                   sdev_rad, cell_found, mean_edge>>
    /\ UNCHANGED ray
    /\ UNCHANGED <<tracker, img, pc, locals, observed, ret, fitter>>

\* lines 206-209
FilterDif ==
    /\ stage = "dif"
    /\ pixel_found' = [k \in Rays |->
                          pixel_found[k]
                            /\ AtLeastMeanMinusSdev(found_dif[k], Stat(found_dif, pixel_found))]
    /\ stage' = "slope"
    /\ UNCHANGED <<x_selected, y_selected, background, seed_pixel, vector_angle,
                   found_x, found_y, found_rad, found_dif, found_edge, found_slope,
                   sdev_rad, cell_found, mean_edge>>
    /\ UNCHANGED ray
    /\ UNCHANGED <<tracker, img, pc, locals, observed, ret, fitter>>

\* lines 212-215
FilterSlope ==
    /\ stage = "slope"
    /\ pixel_found' = [k \in Rays |->
                          pixel_found[k]
                            /\ AtLeastMeanMinusSdev(found_slope[k],
                                                    Stat(found_slope, pixel_found))]
    /\ stage' = "verdict"
    /\ UNCHANGED <<x_selected, y_selected, background, seed_pixel, vector_angle,
                   found_x, found_y, found_rad, found_dif, found_edge, found_slope,
                   sdev_rad, cell_found, mean_edge>>
    /\ UNCHANGED ray
    /\ UNCHANGED <<tracker, img, pc, locals, observed, ret, fitter>>

\* lines 218-228
Verdict ==
    /\ stage = "verdict"
    /\ cell_found' =
          /\ Stat(found_edge, pixel_found).n >= MinFoundRays
          /\ \A k \in Rays : pixel_found[k] => InsideBorder(found_x[k], found_y[k])
    /\ mean_edge' = IF cell_found'
                     THEN <<Stat(found_edge, pixel_found).sum, Stat(found_edge, pixel_found).n>>
                     ELSE mean_edge
    /\ stage' = "edge"
    /\ UNCHANGED <<x_selected, y_selected, background, seed_pixel, vector_angle,
                   pixel_found, found_x, found_y, found_rad, found_dif, found_edge,
                   found_slope, sdev_rad>>
    /\ UNCHANGED ray
    /\ UNCHANGED <<tracker, img, pc, locals, observed, ret, fitter>>

NextEdge ==
    \/ EstimateBackground
    \/ ScanRay
    \/ FilterRadius
    \/ FilterJump
    \/ FilterDif
    \/ FilterSlope
    \/ Verdict

SpecEdge == InitEdge /\ [][NextEdge]_vars

\* ---- one ray of get_cell_edge from any seed --------------------------------------
\* seeds in half pixels, from a pixel and a half outside the image on one side to
\* the same on the other
HalfSeeds == (0 - 3) .. (2 * img_width + 1)
Backgrounds == {m \in Modes : m # 0} \cup Medians

InitRay ==
    /\ InitTracker
    /\ FitterIdle
    /\ stage = "idle"
    /\ x_selected = 0 /\ y_selected = 0
    /\ background = 0
    /\ seed_pixel = 0
    /\ vector_angle = 0
    /\ pixel_found = <<>> /\ found_x = <<>> /\ found_y = <<>> /\ found_rad = <<>>
    /\ found_dif = <<>> /\ found_edge = <<>> /\ found_slope = <<>>
    /\ sdev_rad = NoStat
    /\ cell_found = FALSE
    /\ mean_edge = <<0, 1>>
    /\ \E x2 \in HalfSeeds, y2 \in HalfSeeds, k \in Rays, bg \in Backgrounds :
          ray = [NoRay EXCEPT !.x2 = x2, !.y2 = y2, !.angle = k, !.background = bg]

\* lines 117-151 for one ray: sampling and the sliding window
SampleRay ==
    /\ ~ray.sampled
    /\ \E profile \in Profiles :
          LET v == sampled_pixel_value(profile, ray.x2, ray.y2, ray.angle, ray.background)
          IN  ray' = [ray EXCEPT !.sampled = TRUE,
                                 !.vector_x = sampled_x(ray.x2, ray.angle),
                                 !.vector_y = sampled_y(ray.y2, ray.angle),
                                 !.reads = ImageReads(ray.x2, ray.y2, ray.angle),
                                 !.profile = profile,
                                 !.vector_pixel_value = v,
                                 !.pixel_found = Scan(v, ray.background).pixel_found,
                                 !.limit_ptr = Scan(v, ray.background).limit_ptr]
    /\ UNCHANGED <<stage, x_selected, y_selected, background, seed_pixel, vector_angle,
                   pixel_found, found_x, found_y, found_rad, found_dif, found_edge,
                   found_slope, sdev_rad, cell_found, mean_edge>>
    /\ UNCHANGED <<tracker, img, pc, locals, observed, ret, fitter>>

NextRay == SampleRay

SpecRay == InitRay /\ [][NextRay]_vars

\* ---- one Cell(...) of fit_cells, from the return of get_cell_edge on ------------------
\* The worker is in the body of the frame loop at frame 1, the record of frame 0
\* being in the list and in the cache.  The points are those of the valid rays.
CellCoord == BorderMargin .. (BorderMargin + MaxFitCoord)
EdgePoints == UNION {[1 .. n -> CellCoord \X CellCoord] : n \in MinFoundRays .. NumRays}
FirstRecord ==
    [frame |-> 0, x_selected |-> BorderMargin, y_selected |-> BorderMargin, id |-> 1,
     fitting_method |-> fitting_method,
     cell_found |-> TRUE, ellipse |-> <<BorderMargin, BorderMargin>>]

InitCell ==
    /\ fitting_method \in Methods
    /\ selections = <<[frame |-> 0, pts |-> <<<<BorderMargin, BorderMargin>>>>]>>
    /\ cells = <<FirstRecord>>
    /\ processed_cells = SetItem(<<>>, <<0, BorderMargin, BorderMargin>>, FirstRecord)
    /\ should_run = TRUE
    /\ img = [k \in Keys |-> Unknown]
    /\ pc = "body"
    /\ si = 1 /\ ci = 1 /\ frame = 1 /\ x = BorderMargin /\ y = BorderMargin
    /\ cell = FirstRecord
    /\ cell_id = 1
    /\ di_used = 1
    /\ coordinates = Live
    /\ callback \in BOOLEAN
    /\ calls = IF callback THEN <<<<1, 0>>>> ELSE <<>>
    /\ built = 1
    /\ runs = 1
    /\ ret = Returned("init", "None")
    /\ stopPending = FALSE
    /\ stage = "edge"
    /\ x_selected = x /\ y_selected = y
    /\ background = 1
    /\ seed_pixel = 0
    /\ vector_angle = NumRays
    /\ pixel_found = <<>> /\ found_x = <<>> /\ found_y = <<>> /\ found_rad = <<>>
    /\ found_dif = <<>> /\ found_edge = <<>> /\ found_slope = <<>>
    /\ sdev_rad = NoStat
    /\ cell_found \in BOOLEAN
    /\ mean_edge = <<0, 1>>
    /\ ray = NoRay
    /\ points \in IF cell_found THEN EdgePoints ELSE {<<>>}
    /\ params = NoParams
    /\ error = ""
    /\ con = <<>>

\* cell.py lines 48-53: nothing is fitted when no cell was found; an exception of
\* Ellipse(...) leaves Cell.__init__ and then fit_cells, that has no handler
GetCellData ==
    /\ stage = "edge"
    /\ pc = "body"
    /\ IF ~cell_found
       THEN /\ stage' = "built"
            /\ UNCHANGED <<params, error, con, pc, locals>>
       ELSE \E o \in Ellipse(points, fitting_method) :
              /\ params' = o.params
              /\ error' = o.error
              /\ con' = o.con
              /\ IF o.error = ""
                 THEN stage' = "built" /\ UNCHANGED <<pc, locals>>
                 ELSE stage' = "raised" /\ Propagate
    /\ UNCHANGED <<points, fitting_method>>
    /\ UNCHANGED <<x_selected, y_selected, background, seed_pixel, vector_angle,
                   pixel_found, found_x, found_y, found_rad, found_dif, found_edge,
                   found_slope, sdev_rad, cell_found, mean_edge>>
    /\ UNCHANGED ray
    /\ UNCHANGED <<tracker, img, observed, ret>>

\* the Cell that line 74 of pybud.py has got
NewCell ==
    [frame |-> frame, x_selected |-> x, y_selected |-> y, id |-> cell_id,
     fitting_method |-> fitting_method,
     cell_found |-> cell_found,
     ellipse |-> IF cell_found THEN <<params[0], params[1]>> ELSE NoEllipse]

\* pybud.py lines 75-95
StoreCell ==
    /\ stage = "built"
    /\ pc = "body"
    /\ cells' = Append(cells, NewCell)
    /\ processed_cells' = SetItem(processed_cells, <<frame, x, y>>, NewCell)
    /\ built' = built + 1
    /\ Continue(NewCell)
    /\ stage' = "stored"
    /\ UNCHANGED <<selections, should_run, img, callback, runs, stopPending, ret, fitter>>
    /\ UNCHANGED <<x_selected, y_selected, background, seed_pixel, vector_angle,
                   pixel_found, found_x, found_y, found_rad, found_dif, found_edge,
                   found_slope, sdev_rad, cell_found, mean_edge>>
    /\ UNCHANGED ray

NextCell ==
    \/ GetCellData
    \/ StoreCell

SpecCell == InitCell /\ [][NextCell]_vars

\* ---- properties ---------------------------------------------------------------
IsPrefix(s, t) == Len(s) <= Len(t) /\ \A i \in 1 .. Len(s) : t[i] = s[i]
KeyOf(c) == <<c.frame, c.x_selected, c.y_selected>>
\* a step of the worker that runs one iteration of the frame loop to its end
IterationStep == pc = "body" /\ pc' # "body"
\* the records appended by the current run
Fresh == SubSeq(cells, Len(cells) - built + 1, Len(cells))

\* C1: in an iteration whose key (frame, x, y) is cached nothing is constructed,
\* appended or stored; the result list, the cache and the number of constructed
\* cells change only in an iteration whose key is not cached, which builds exactly
\* one record for that key, appends it and stores it under the key.
C1_CachedRecordReused ==
    [][/\ (IterationStep /\ <<frame, x, y>> \in DOMAIN processed_cells)
            => /\ cells' = cells
               /\ processed_cells' = processed_cells
               /\ built' = built
       /\ (cells' # cells \/ processed_cells' # processed_cells \/ built' > built)
            /\ ~Clear
            => /\ IterationStep
               /\ <<frame, x, y>> \notin DOMAIN processed_cells
               /\ built' = built + 1
               /\ Len(cells') = Len(cells) + 1
               /\ IsPrefix(cells, cells')
               /\ KeyOf(cells'[Len(cells')]) = <<frame, x, y>>
               /\ DOMAIN processed_cells' = DOMAIN processed_cells \cup {<<frame, x, y>>}
               /\ processed_cells'[<<frame, x, y>>] = cells'[Len(cells')]
               /\ \A k \in DOMAIN processed_cells : processed_cells'[k] = processed_cells[k]
      ]_vars

\* a second run has gone through a frame of its first seed without building anything
C1_Witness ==
    /\ runs = 2
    /\ pc = "check"
    /\ cell_id = 1
    /\ frame > selections[si].frame
    /\ built = 0
    /\ cells # <<>>

\* C2: an iteration whose record is found goes on to the next frame of the same
\* seed; an iteration whose record is not found leaves the seed (the next seed is
\* entered, or fit_cells returns), with that record in the cache and, when it was
\* built in this iteration, at the end of the result list; a cached not-found
\* record is reused without building one.
C2_LineageStopsAtNotFound ==
    [][(IterationStep /\ pc' # "failed")
         => LET key == <<frame, x, y>>
                next == SeedFrom(selections, si, ci + 1)
            IN  /\ key \in DOMAIN processed_cells'
                /\ KeyOf(processed_cells'[key]) = key
                /\ IF processed_cells'[key].cell_found /\ frame + 1 < NumFrames
                   THEN /\ pc' = "check"
                        /\ <<si', ci'>> = <<si, ci>>
                        /\ frame' = frame + 1
                        /\ cell_id' = cell_id
                   ELSE /\ IF next = <<0, 0>>
                           THEN pc' = "returned"
                           ELSE /\ pc' = "check"
                                /\ <<si', ci'>> = next
                                /\ frame' = selections[next[1]].frame
                                /\ <<x', y'>> = selections[next[1]].pts[next[2]]
                                /\ cell_id' = cell_id + 1
                /\ ~processed_cells'[key].cell_found
                     => IF key \in DOMAIN processed_cells
                        THEN built' = built /\ cells' = cells
                        ELSE cells' = Append(cells, processed_cells'[key])
      ]_vars

\* frame 0 found, frame 1 not found: the lineage is those two records, and a second,
\* uncancelled run over the same seed has built nothing
C2_Witness ==
    /\ runs = 2
    /\ pc = "returned"
    /\ should_run
    /\ ~stopPending
    /\ built = 0
    /\ NumSelections(selections) = 1
    /\ Len(cells) = 2
    /\ cells[1].frame = 0 /\ cells[1].cell_found
    /\ cells[2].frame = 1 /\ ~cells[2].cell_found
    /\ cells[2].id = cells[1].id

\* C3: the frame loop's body is entered only through the cancellation check with
\* the flag still set; a check that finds the flag cleared returns, and from then
\* until the run is over no record is built, no callback is invoked and the result
\* list and the cache stay as they were.
C3_CancelledRunReturns ==
    [][/\ (pc' = "body" /\ pc # "body") => (pc = "check" /\ should_run)
       /\ (pc = "check" /\ ~should_run /\ pc' # "check")
            => /\ pc' = "returned"
               /\ cells' = cells
               /\ processed_cells' = processed_cells
               /\ built' = built
               /\ calls' = calls
       /\ (pc = "returned")
            => /\ cells' = cells
               /\ processed_cells' = processed_cells
               /\ pc' \in {"returned", "idle"}
               /\ pc' = "returned" => (built' = built /\ calls' = calls)
      ]_vars

\* a run cut after its first record: that record is found and is not on the last
\* frame, so only cancellation kept the lineage from going on
C3_Witness ==
    /\ pc = "returned"
    /\ ~should_run
    /\ built = 1
    /\ Len(cells) = 1
    /\ cells[1].cell_found
    /\ cells[1].frame + 1 < NumFrames

\* C4 (as claimed): a stop() called while a run is active makes the run return at
\* its next cancellation check.
C4_StopTakesEffectAtNextCheck ==
    [][(pc = "check" /\ stopPending /\ pc' # "check") => pc' = "returned"]_vars

\* the seeds in iteration order: dict insertion order, then list order
RECURSIVE Flatten(_)
Flatten(sel) ==
    IF sel = <<>> THEN <<>>
    ELSE [j \in 1 .. Len(Head(sel).pts) |->
            <<Head(sel).frame, Head(sel).pts[j][1], Head(sel).pts[j][2]>>]
         \o Flatten(Tail(sel))

\* the records appended by the current run follow the seeds' iteration order: the
\* record's id is its seed's position in that order, ids never decrease along the
\* list, a record is not on a frame before its seed's start frame, and a record on
\* the start frame was made at the seed's point
FreshFollowsSeeds ==
    \A i \in 1 .. Len(Fresh) :
        /\ Fresh[i].id \in 1 .. Len(Flatten(selections))
        /\ Fresh[i].frame >= Flatten(selections)[Fresh[i].id][1]
        /\ Fresh[i].frame = Flatten(selections)[Fresh[i].id][1]
             => KeyOf(Fresh[i]) = Flatten(selections)[Fresh[i].id]
        /\ \A j \in (i + 1) .. Len(Fresh) : Fresh[i].id <= Fresh[j].id

\* C5 (amended): the records a run appends are in seed iteration order, all records
\* of one seed before any record of the next, and the records appended for one seed
\* have strictly increasing frames, none before the seed's start frame.
C5_RunAppendsInSeedOrder ==
    /\ FreshFollowsSeeds
    /\ \A i \in 1 .. Len(Fresh) : \A j \in (i + 1) .. Len(Fresh) :
         Fresh[i].id = Fresh[j].id => Fresh[i].frame < Fresh[j].frame

\* C5 (as claimed): moreover the frames of the records appended for one seed are
\* consecutive.
C5_FramesConsecutive ==
    /\ C5_RunAppendsInSeedOrder
    /\ \A i \in 1 .. (Len(Fresh) - 1) :
         Fresh[i].id = Fresh[i + 1].id => Fresh[i + 1].frame = Fresh[i].frame + 1

\* a finished run over two start frames, the later frame inserted first, that has
\* appended records for both seeds
C5_Witness ==
    /\ pc = "returned"
    /\ Len(selections) = 2
    /\ selections[1].frame > selections[2].frame
    /\ Len(Fresh) >= 3
    /\ Fresh[1].id = 1
    /\ Fresh[Len(Fresh)].id = 2

\* C6 (as claimed): the records of the result list that share a lineage id have
\* strictly increasing frames in list order.
C6_OneChainPerLineageId ==
    \A i \in 1 .. Len(cells) : \A j \in (i + 1) .. Len(cells) :
        cells[i].id = cells[j].id => cells[i].frame < cells[j].frame

\* C7: a step other than clear() keeps the result list as a prefix of the new one,
\* keeps every cache entry with its record unchanged, and appends a record only
\* for a key no record of the list has.
C7_AppendOnlyBetweenClears ==
    [][~Clear
         => /\ IsPrefix(cells, cells')
            /\ Len(cells') <= Len(cells) + 1
            /\ \A k \in DOMAIN processed_cells :
                 k \in DOMAIN processed_cells' /\ processed_cells'[k] = processed_cells[k]
            /\ Len(cells') > Len(cells)
                 => \A i \in 1 .. Len(cells) : KeyOf(cells[i]) # KeyOf(cells'[Len(cells')])
      ]_vars

\* a second run appends to the records of the first
C7_Witness ==
    /\ runs = 2
    /\ built >= 1
    /\ Len(cells) > built
    /\ Cardinality(DOMAIN processed_cells) = Len(cells)

\* C8: an iteration whose record is found invokes the callback, when one was
\* passed, exactly once with (the lineage and) that frame and continues the lineage
\* from the record's ellipse centre; an iteration whose record is not found invokes
\* nothing; the callback frames of one lineage are strictly increasing.
C8_ProgressPerFoundFrame ==
    [][(IterationStep /\ pc' # "failed")
         => LET rec == processed_cells'[<<frame, x, y>>]
            IN  /\ IF rec.cell_found /\ callback
                   THEN calls' = Append(calls, <<cell_id, frame>>)
                   ELSE calls' = calls
                /\ (rec.cell_found /\ frame + 1 < NumFrames)
                     => /\ x' = get_x_center(rec)
                        /\ y' = get_y_center(rec)
                        /\ frame' = frame + 1
                /\ \A i \in 1 .. Len(calls') : \A j \in (i + 1) .. Len(calls') :
                     /\ calls'[i][1] <= calls'[j][1]
                     /\ calls'[i][1] = calls'[j][1] => calls'[i][2] < calls'[j][2]
      ]_vars

\* two callbacks for one lineage, which has moved off its seed point
C8_Witness ==
    /\ pc = "check"
    /\ Len(calls) >= 2
    /\ calls[Len(calls)][1] = calls[Len(calls) - 1][1]
    /\ calls[Len(calls)][1] = cell_id
    /\ <<x, y>> # selections[si].pts[ci]

\* no two selections of one frame lie within the selection radius of each other
NoNearPair ==
    \A e \in 1 .. Len(selections) :
        \A i \in 1 .. Len(selections[e].pts) : \A j \in (i + 1) .. Len(selections[e].pts) :
            ~Near(selections[e].pts[i][1], selections[e].pts[i][2],
                  selections[e].pts[j][1], selections[e].pts[j][2])

\* C9 (as claimed): add_selection leaves the list unchanged when it already holds a
\* point within the radius, so no two selections of a frame are within the radius.
C9_AddRejectsDuplicate ==
    /\ [][\A f \in Frames, p \in Points :
            (AddSelection(f, p[1], p[2]) /\ contains_selection(selections, f, p[1], p[2]))
              => selections' = selections]_vars
    /\ []NoNearPair

\* the indexes of the entries of frame f within the radius of (px, py)
Within(sel, f, px, py) ==
    IF \E e \in 1 .. Len(sel) : sel[e].frame = f
    THEN LET e == CHOOSE d \in 1 .. Len(sel) : sel[d].frame = f
         IN  {i \in 1 .. Len(sel[e].pts) : Near(sel[e].pts[i][1], sel[e].pts[i][2], px, py)}
    ELSE {}

\* C10: remove_selection returns True and deletes the lowest-index entry within the
\* radius, keeping the order of the others and every other frame, or returns False
\* and changes nothing when there is none; contains_selection returns True exactly
\* when there is one.
C10_RemoveFirstWithinRadius ==
    [][ret'.op \in {"remove_selection", "contains_selection"} =>
       \A f \in Frames, p \in Points :
         LET near == Within(selections, f, p[1], p[2])
         IN  /\ RemoveSelection(f, p[1], p[2])
               => IF near = {}
                  THEN ret'.val = "False" /\ selections' = selections
                  ELSE LET m == CHOOSE i \in near : \A k \in near : i <= k
                           e == CHOOSE d \in 1 .. Len(selections) : selections[d].frame = f
                       IN  /\ ret'.val = "True"
                           /\ Len(selections') = Len(selections)
                           /\ \A d \in 1 .. Len(selections) :
                                d # e => selections'[d] = selections[d]
                           /\ selections'[e].frame = f
                           /\ Len(selections'[e].pts) = Len(selections[e].pts) - 1
                           /\ \A k \in 1 .. Len(selections'[e].pts) :
                                selections'[e].pts[k] =
                                   selections[e].pts[IF k < m THEN k ELSE k + 1]
             /\ ContainsSelection(f, p[1], p[2])
               => /\ ret'.val = PyBool(near # {})
                  /\ selections' = selections
      ]_vars

\* remove_selection has returned True and left two entries in a frame
C10_Witness ==
    /\ ret = Returned("remove_selection", "True")
    /\ \E e \in 1 .. Len(selections) : Len(selections[e].pts) = 2

\* C11: when clear() has returned the selection map, the cache and the result list
\* are all empty, whatever they held before; a clear() that follows a clear() leaves
\* the state as the first one left it.
C11_ClearEmptiesAll ==
    /\ [](ret.op = "clear" => (selections = <<>> /\ cells = <<>> /\ processed_cells = <<>>))
    /\ [][(ret.op = "clear" /\ Clear) => UNCHANGED vars]_vars

\* clear() has returned after a run had built and cached a record
C11_Witness ==
    /\ ret.op = "clear"
    /\ runs >= 1
    /\ \E k \in Keys : img[k].kind \in {"found", "notfound"}

\* C12 (as claimed): an iteration whose ellipse fit fails is treated like a
\* not-found frame: only its lineage ends, the run goes on with the next seed (or
\* returns normally when there is none), and the records produced and cached so
\* far are kept.
C12_FitFailureEndsOnlyItsLineage ==
    [][(IterationStep /\ img'[<<frame, x, y>>].kind = "raise")
         => LET next == SeedFrom(selections, si, ci + 1)
            IN  /\ IsPrefix(cells, cells')
                /\ \A k \in DOMAIN processed_cells :
                     k \in DOMAIN processed_cells' /\ processed_cells'[k] = processed_cells[k]
                /\ IF next = <<0, 0>>
                   THEN pc' = "returned"
                   ELSE pc' = "check" /\ <<si', ci'>> = next
      ]_vars

\* C13: an Ellipse constructed with a method other than "geometric" and "algebraic"
\* raises an error and has no parameters; inside fit_cells the exception ends the
\* call at once, and the list and the cache stay what they were before the failing
\* record: nothing is appended or stored for it, then or later.
C13_UnknownMethodRaises ==
    /\ [][(stage = "edge" /\ cell_found /\ fitting_method \notin {"geometric", "algebraic"})
            => /\ error' # ""
               /\ params' = NoParams
               /\ stage' = "raised"
               /\ pc' = "failed"
               /\ cells' = cells
               /\ processed_cells' = processed_cells]_vars
    /\ [](stage = "raised"
            => /\ cells = <<FirstRecord>>
               /\ DOMAIN processed_cells = {<<0, BorderMargin, BorderMargin>>}
               /\ processed_cells[<<0, BorderMargin, BorderMargin>>] = FirstRecord)

C13_Witness ==
    /\ stage = "raised"
    /\ fitting_method = "bogus"
    /\ error = "ValueError"
    /\ params = NoParams
    /\ pc = "failed"
    /\ Len(points) = NumRays
    /\ cells = <<FirstRecord>>

\* C14 (as claimed): while the worker thread is executing fit_cells, the selections,
\* the cache and the result list are changed by the worker only: a step that is not
\* a step of the worker leaves the three unchanged.
C14_OnlyWorkerMutatesDuringRun ==
    [][(pc \in {"check", "body"} /\ pc' = pc)
          => UNCHANGED <<selections, cells, processed_cells>>]_vars

\* C15 (as claimed): after get_cell_edge, cell_found is true exactly when there are
\* enough valid rays and every valid point is at least BorderMargin px from the
\* first and from the last column and row of the image.
C15_FoundIffAwayFromBorders ==
    stage = "edge"
        => (cell_found
              <=> /\ Cardinality({k \in Rays : pixel_found[k]}) >= MinFoundRays
                  /\ \A k \in Rays :
                        pixel_found[k]
                          => /\ found_x[k] >= BorderMargin
                             /\ (img_width - 1) - found_x[k] >= BorderMargin
                             /\ found_y[k] >= BorderMargin
                             /\ (img_height - 1) - found_y[k] >= BorderMargin)

\* C16 (as claimed): a background estimate that is not positive is an error of the
\* frame: no ray is accepted on a relative drop computed from it, and the pass does
\* not end with cell_found true.
C16_NonPositiveBackgroundRejected ==
    (stage # "new" /\ background <= 0)
        => /\ \A k \in DOMAIN pixel_found : ~pixel_found[k]
           /\ ~cell_found

\* C20 (as claimed): at the end of a detection pass every ray whose validity flag is
\* false has distance, magnitude, width and slope zero.
C20_InvalidRaysAreZero ==
    stage = "edge"
        => \A k \in Rays :
              ~pixel_found[k]
                => /\ found_rad[k] = 0
                   /\ found_dif[k] = 0
                   /\ found_edge[k] = 0
                   /\ found_slope[k] = 0

\* C17 (as claimed): an Ellipse constructed from fewer than 5 points fails with an
\* error, whatever the method: it never has parameters.
C17_FewPointsFail ==
    Len(points) < 5 => params = NoParams

\* C18 (as claimed): every Ellipse that was produced has
\* get_major() >= get_minor() >= 0.
C18_MajorMinorNonNegative ==
    params # NoParams
        => /\ get_major(params) >= get_minor(params)
           /\ get_minor(params) >= 0

\* C19 (as claimed): get_angle() of every Ellipse that was produced is in [0, 180)
\* degrees, 90 degrees being added exactly when params[3] > params[2].
C19_AngleInHalfTurn ==
    params # NoParams
        => /\ 0 <= get_angle(params)
           /\ get_angle(params) < 180
           /\ get_angle(params)
                = degrees(params[4]) + (IF params[3] > params[2] THEN 90 ELSE 0)

\* C21: each filter of get_cell_edge (radius, jump, magnitude, slope) turns validity
\* flags from true to false only: the valid rays after a filter are among those
\* before it, and their number does not grow.
C21_FiltersOnlyInvalidate ==
    [][(stage \in {"radius", "jump", "dif", "slope"})
          => ((\A k \in Rays : pixel_found'[k] => pixel_found[k])
                /\ (Cardinality({k \in Rays : pixel_found'[k]})
                       <= Cardinality({k \in Rays : pixel_found[k]})))
      ]_vars

\* a filter has rejected a ray that the scan had accepted
C21_Witness ==
    /\ stage = "edge"
    /\ \E k \in Rays : ~pixel_found[k] /\ found_dif[k] > 0
    /\ \E k \in Rays : pixel_found[k]

\* ---- the fifth filter of the specification (4.1 step 4e), not in src/ ----------------
\* the n-th smallest of the values f[k], k in Rays
KthSmallest(f, n) ==
    CHOOSE v \in {f[k] : k \in Rays} :
        /\ Cardinality({k \in Rays : f[k] < v}) < n
        /\ Cardinality({k \in Rays : f[k] <= v}) >= n
\* twice the median of the values f[k] over all rays
TwiceMedian(f) ==
    IF NumRays % 2 = 0
    THEN KthSmallest(f, NumRays \div 2) + KthSmallest(f, (NumRays \div 2) + 1)
    ELSE 2 * KthSmallest(f, (NumRays + 1) \div 2)
\* slope-sign consistency: with a negative median slope the valid rays of
\* non-negative slope are invalidated, and vice versa
SlopeSignFilter(valid, slope) ==
    [k \in Rays |->
        valid[k] /\ (IF TwiceMedian(slope) < 0 THEN slope[k] < 0 ELSE slope[k] >= 0)]

\* C22: the valid rays that get_cell_edge produces are those of the five stages of
\* the specification: the slope-sign filter applied after the four filters of the
\* code changes nothing, a slope being a positive drop over a positive width.
C22_FiveStagesAgree ==
    stage \in {"verdict", "edge"}
        => SlopeSignFilter(pixel_found, found_slope) = pixel_found

\* valid and invalid rays, the median slope being positive
C22_Witness ==
    /\ stage = "edge"
    /\ cell_found
    /\ TwiceMedian(found_slope) > 0
    /\ \E k \in Rays : ~pixel_found[k] /\ found_slope[k] > 0

\* C23: sampling a ray never indexes outside its arrays, whatever the seed (inside,
\* near or outside the image, on a pixel or between pixels), the angle and the
\* offset: the image is indexed only at 0 <= x < img_width and 0 <= y < img_height,
\* every other sample is the background value, and the limit_ptr kept for the ray is
\* an index 0 .. cell_radius of the ray's buffers.
C23_SamplingStaysInBounds ==
    ray.sampled
        => /\ \A c \in ray.reads :
                0 <= c[1] /\ c[1] <= img_width - 1 /\ 0 <= c[2] /\ c[2] <= img_height - 1
           /\ \A i \in 0 .. cell_radius :
                \/ <<ray.vector_x[i], ray.vector_y[i]>> \in ray.reads
                   /\ ray.vector_pixel_value[i] = ray.profile[i]
                \/ <<ray.vector_x[i], ray.vector_y[i]>> \notin ray.reads
                   /\ ray.vector_pixel_value[i] = ray.background
           /\ ray.limit_ptr \in DOMAIN ray.vector_x
           /\ DOMAIN ray.vector_x = 0 .. cell_radius
           /\ DOMAIN ray.vector_pixel_value = 0 .. cell_radius

\* a ray from a seed between pixels, part of it outside the image, with an edge on it
C23_Witness ==
    /\ ray.sampled
    /\ ray.x2 % 2 = 1
    /\ ray.reads # {}
    /\ \E i \in 0 .. cell_radius : <<ray.vector_x[i], ray.vector_y[i]>> \notin ray.reads
    /\ ray.pixel_found
    /\ ray.limit_ptr > 0

\* C24 (as claimed): in the algebraic fit, when no eigenvector of the reduced problem
\* satisfies the ellipse constraint con > 0, the fit ends with an error and has no
\* parameters.
C24_NoEllipseEigenvectorFails ==
    (con # <<>> /\ \A i \in 0 .. 2 : con[i] <= 0)
        => (error # "" /\ params = NoParams)

\* C25: after any sequence of add_selection, remove_selection, clear and fit_cells
\* calls (cancelled or not) the result list and the cache hold the same records: the
\* list has no duplicates, it is as long as the cache has keys, and every record of
\* the list is the value of exactly one key, which is (frame, x_selected, y_selected)
\* of that record.
C25_ListAndCacheAgree ==
    /\ \A i \in DOMAIN cells, j \in DOMAIN cells : cells[i] = cells[j] => i = j
    /\ Len(cells) = Cardinality(DOMAIN processed_cells)
    /\ \A i \in DOMAIN cells :
          /\ Cardinality({k \in DOMAIN processed_cells : processed_cells[k] = cells[i]}) = 1
          /\ KeyOf(cells[i]) \in DOMAIN processed_cells
          /\ processed_cells[KeyOf(cells[i])] = cells[i]

\* a second run has added records to those that the first run left
C25_Witness ==
    /\ runs = 2
    /\ pc = "returned"
    /\ built >= 1
    /\ Len(cells) >= built + 2
    /\ \E i \in DOMAIN cells : cells[i].frame > 0

\* C26: resuming after a cancellation is the same as never cancelling.  When a
\* fit_cells call runs to its end, after any number of runs cut short by stop() on
\* the same selections and image, the result list (records, order, lineage ids)
\* and the cache are those of one uncancelled run from the empty tracker; and a run
\* that starts when the list is already that of a completed run creates no record.
C26_ResumeEqualsUncancelled ==
    LET u == Uncancelled(selections, img)
    IN  /\ (pc = "returned" /\ should_run)
            => (u.ok /\ cells = u.cells /\ processed_cells = u.processed_cells)
        /\ (pc \in {"check", "body", "returned"} /\ u.ok
              /\ SubSeq(cells, 1, Len(cells) - built) = u.cells)
            => built = 0

\* a run completes what a cancelled run began, on two lineages
C26_Witness ==
    /\ pc = "returned" /\ should_run
    /\ runs >= 2
    /\ built >= 1
    /\ Len(cells) > built
    /\ \E i \in DOMAIN cells : cells[i].id = 2

\* C27 (as claimed): Clear Selections pressed while a run is active leaves the
\* tracker empty: once the worker has left fit_cells, the result list and the cache
\* hold no record.
C27_ClearWhileRunningLeavesEmpty ==
    (runs = 1 /\ ret.op = "clear" /\ pc \in {"returned", "failed"})
        => (cells = <<>> /\ processed_cells = <<>>)

\* C28 (as claimed): every click on Measure is eventually followed by the worker's
\* finished signal, whose slot enables the Measure button again, however fit_cells
\* ends.
C28_MeasureEventuallyFinished == (pc = "launched") ~> (pc = "idle")

\* C29: the cache is keyed by (frame, x, y) only.  A change of configuration
\* between runs leaves the result list and every cached record as they are, and a
\* later fit_cells that comes to a cached key takes the cached record, built under
\* the old configuration, and builds nothing for it.
C29_StaleCacheIsReused ==
    [][/\ (fitting_method' # fitting_method) => UNCHANGED <<cells, processed_cells>>
       /\ (pc = "body" /\ <<frame, x, y>> \in DOMAIN processed_cells)
            => /\ UNCHANGED <<cells, processed_cells, img, built>>
               /\ (processed_cells[<<frame, x, y>>].cell_found /\ frame + 1 < NumFrames)
                    => /\ cell' = processed_cells[<<frame, x, y>>]
                       /\ frame' = frame + 1
                       /\ x' = get_x_center(processed_cells[<<frame, x, y>>])
                       /\ y' = get_y_center(processed_cells[<<frame, x, y>>])
      ]_vars

\* a run under a new method has used a record built under the old one to go on to
\* the next frame, and has built nothing
C29_Witness ==
    /\ runs = 2
    /\ pc = "check"
    /\ built = 0
    /\ cell # NoCell
    /\ cell.fitting_method # fitting_method
    /\ cell \in {cells[i] : i \in DOMAIN cells}
    /\ frame = cell.frame + 1

\* the selection list of frame f, empty when the frame is not a key
FrameList(sel, f) == IF Entry(sel, f) = 0 THEN <<>> ELSE sel[Entry(sel, f)].pts

====
